---- MODULE Spec2Model ----
(***************************************************************************)
(* IntegrationsService (packages/nocodb/src/services/integrations.service  *)
(* .ts): the update, hard-delete, soft-delete and create handlers of       *)
(* shared integrations, the metadata store they write, the per-source      *)
(* cache and the command bus.                                              *)
(* Every await of a handler is one step of the call that runs it; a        *)
(* collaborator call may return or throw.  Of the local connection pool    *)
(* and the bus the model keeps the calls made to them.                     *)
(***************************************************************************)
EXTENDS Naturals, Sequences, FiniteSets, TLC

\* Bounds of the model.
MaxSources == 2
MaxConfigs == 2
MaxCreated == 2

IntegrationIds == {"i1", "i2"}
SourceIds == 1..MaxSources
\* The config values; 0 stands for a config that is undefined.
Configs == 1..MaxConfigs
\* The callers: A alone where calls follow one another, A and B where they overlap.
Calls == {"A", "B"}
\* The integration the calls are for; the other integration stands by.
TargetIds == {"i1"}
\* The ids createIntegration gives to new rows, in the order it gives them.
FreshIds == <<"i3", "i4", "i5">>

\* The raw values of the bases.deleted column.
Tri == {"false", "null", "true"}

\* Metadata store handles: Noco.ncMeta itself (a write through it is durable at
\* once) and the transaction a call opened from it.
ROOT == <<"Noco.ncMeta">>
Handle(c) == <<"transaction", c>>

VARIABLES
    integrations,   \* durable integration rows, by id (absent id: no row)
    sources,        \* durable source rows (MetaTable.BASES), by id
    cache,          \* NocoCache: integration_config under `${CacheScope.BASE}:${id}`
    available,      \* JobsRedis.available
    overlap,        \* whether calls may run concurrently
    calls           \* the handler calls: locals, position and what each has done

vars == <<integrations, sources, cache, available, overlap, calls>>

NoError == [class |-> "none", blockers |-> {}]
Error(class, blockers) == [class |-> class, blockers |-> blockers]

WorkspaceOf(id) == IF id = "i1" THEN "w1" ELSE "w2"

\* The xcCondition of both metaList2 calls: deleted eq false _or deleted eq null.
\* (IsActive_NoFilter: the list without the xcCondition.)
IsActive_NoFilter(deleted) == TRUE
IsActive(deleted) == deleted = "false" \/ deleted = "null"

\* The rows of `srcs` the delete handler's metaList2 selects (lines 112-136):
\* condition fk_workspace_id, fk_integration_id and the xcCondition.
DeleteList(srcs, ws, id) ==
    {s \in DOMAIN srcs :
        /\ srcs[s].fk_workspace_id = ws
        /\ srcs[s].fk_integration_id = id
        /\ IsActive(srcs[s].deleted)}

\* The rows the propagation's metaList2 selects (lines 258-281): the workspace
\* scope is the first argument, the condition is fk_integration_id.
\* (UpdateList_NoFlagFilter: the propagation's list without the xcCondition.)
UpdateList_NoFlagFilter(srcs, ws, id) ==
    {s \in DOMAIN srcs :
        /\ srcs[s].fk_workspace_id = ws
        /\ srcs[s].fk_integration_id = id}
UpdateList(srcs, ws, id) ==
    {s \in DOMAIN srcs :
        /\ srcs[s].fk_workspace_id = ws
        /\ srcs[s].fk_integration_id = id
        /\ IsActive(srcs[s].deleted)}

Min(S) == CHOOSE x \in S : \A y \in S : x <= y

\* A list result: the selected rows in id order.
RECURSIVE Rows(_)
Rows(S) == IF S = {} THEN <<>> ELSE <<Min(S)>> \o Rows(S \ {Min(S)})

Range(seq) == {seq[k] : k \in 1..Len(seq)}

Without(f, D) == [x \in DOMAIN f \ D |-> f[x]]

IdleCall ==
    [op |-> "none", pc |-> "idle",
     id |-> "i1", force |-> FALSE, cfg |-> 1, valid |-> TRUE,
     integration |-> "none", ws |-> "none", config |-> 0,
     srcs |-> <<>>, i |-> 0,
     txn |-> "none", txnLog |-> <<>>, delS |-> {}, delI |-> {}, dirS |-> {}, dirI |-> {},
     caught |-> NoError, failedAt |-> "none", err |-> NoError, ret |-> "none",
     invoked |-> {}, patched |-> {}, dropped |-> {}, released |-> {},
     worker |-> {}, primary |-> {}, emitted |-> FALSE,
     faulted |-> FALSE, sawBus |-> FALSE,
     copy |-> "none", title |-> <<>>, created |-> "none",
     preI |-> <<>>, preS |-> <<>>]

InitRows(cfg) ==
    [id \in IntegrationIds |->
        [fk_workspace_id |-> WorkspaceOf(id), title |-> <<id>>, config |-> cfg[id],
         deleted |-> FALSE]]

InitStore ==
    /\ integrations = InitRows([id \in IntegrationIds |-> 1])
    /\ \E fk \in [SourceIds -> IntegrationIds], del \in [SourceIds -> Tri] :
         /\ \A s \in SourceIds : fk[s] \notin TargetIds => del[s] = "false"
         /\ sources =
             [s \in SourceIds |->
                [base_id |-> s, fk_workspace_id |-> WorkspaceOf(fk[s]),
                 fk_integration_id |-> fk[s], deleted |-> del[s]]]
    /\ cache = [s \in SourceIds |-> 1]
    /\ available \in BOOLEAN
    /\ calls = [c \in Calls |-> IdleCall]

Init == InitStore /\ overlap = FALSE

\* The start of the runs in which the calls of two callers overlap.
InitOverlap == InitStore /\ overlap = TRUE

\* The start of the runs of integrationCreate: the integrations hold any configs,
\* no source uses them.
InitCreate ==
    /\ \E cfg \in [IntegrationIds -> Configs] : integrations = InitRows(cfg)
    /\ sources = [s \in SourceIds |->
                    [base_id |-> s, fk_workspace_id |-> "w0",
                     fk_integration_id |-> "none", deleted |-> "false"]]
    /\ cache = [s \in SourceIds |-> 0]
    /\ available \in BOOLEAN
    /\ calls = [c \in Calls |-> IdleCall]
    /\ overlap = FALSE

----------------------------------------------------------------------------
(* Collaborators, by their contracts.                                      *)

\* NocoCache.update(key, fields): merges into the entry at key; no entry, no write.
CachePatch(cch, s, cfg) ==
    IF s \in DOMAIN cch THEN [cch EXCEPT ![s] = cfg] ELSE cch

\* Integration.updateIntegration: writes the new fields of an existing row.
PersistIntegration(ints, id, cfg) == [ints EXCEPT ![id].config = cfg]

\* integration.softDelete(): one write that sets the row's delete flag.
SoftDeleted(ints, id) ==
    IF id \in DOMAIN ints THEN [ints EXCEPT ![id].deleted = TRUE] ELSE ints

\* The config of a row is kept sealed: Integration.get hands out the sealed
\* blob, getConnectionConfig opens it, createIntegration and updateIntegration
\* seal what they are given.  The config field of a row of `integrations` is
\* what the row's blob opens to.
Seal(cfg) == cfg + MaxConfigs
Unseal(blob) == blob - MaxConfigs

\* Integration.createIntegration: a new row under the next fresh id.
Created(ints) == Cardinality(DOMAIN ints \cap Range(FreshIds))
NewId(ints) == FreshIds[Created(ints) + 1]
InsertIntegration(ints, ws, title, cfg) ==
    [id \in DOMAIN ints \cup {NewId(ints)} |->
        IF id = NewId(ints)
          THEN [fk_workspace_id |-> ws, title |-> title, config |-> cfg,
                deleted |-> FALSE]
          ELSE ints[id]]

\* NcError.integrationLinkedWithMultiple(bases, sources): the Conflict error
\* that names every blocking base/source pair.
IntegrationLinkedWithMultiple(pairs) == Error("Conflict", pairs)

\* NcError.badRequest(e): a BadRequest error made from e; the class and the
\* structured details of e are not carried over.
BadRequest(e) == Error("BadRequest", {})

\* sourcesService.baseDelete and integration.delete remove their row through the
\* handle they are given: at once through Noco.ncMeta, at commit through a
\* transaction.  A transaction's commit makes its deletes durable; its rollback
\* drops them.
Durable(h) == h = ROOT

----------------------------------------------------------------------------
(* The handlers' own decisions.                                            *)

\* Line 138: the non-forced delete of an integration with linked sources stops.
\* (Blocked_OffByOne: the same with length > 1.)
Blocked_OffByOne(n, force) == n > 1 /\ ~force
Blocked(n, force) == n > 0 /\ ~force

\* Lines 103 and 177: a throw inside the try block lands in the catch block.
\* (AfterThrow_Swallowed: the error is dropped and the commit goes ahead.)
AfterThrow_Swallowed == "commit"
AfterThrow == "catch"

\* Line 296: the RELEASE commands are sent only while the bus is available.
\* (Broadcasts_Always: the same without the guard.)
Broadcasts_Always(avail) == TRUE
Broadcasts(avail) == avail

\* Line 165: the handle sourcesService.baseDelete is given.
\* (CascadeHandle_Root: baseDelete left to its default, Noco.ncMeta.)
CascadeHandle_Root(c) == ROOT
CascadeHandle(c) == Handle(c)

\* Lines 176 and 181: after the commit the handler leaves the try block and
\* returns.
\* (AfterCommit_Finally: the rollback in a finally block, run after the commit too.)
AfterCommit_Finally == "catch"
AfterCommit == "return"

\* Line 169: the handle integration.delete is given.
RowDeleteHandle(c) == Handle(c)

\* Line 284: the propagation loop goes on to the next listed source, if any.
\* (NextSource_SkipsLast: the loop stops one source early.)
NextSource_SkipsLast(i, n) == IF i + 1 < n THEN "patch" ELSE "notify"
NextSource(i, n) == IF i < n THEN "patch" ELSE "notify"

\* Lines 48-51: validatePayload throws on a payload that does not fit the schema,
\* before any other statement of integrationUpdate.
\* (PayloadRejected_Never: the handler without the validatePayload call.)
PayloadRejected_Never(valid) == FALSE
PayloadRejected(valid) == ~valid

\* Lines 189-190: integrationSoftDelete calls softDelete on the row it got
\* whatever the row's delete flag says.
\* (RefusesDeleted_Checks: the handler rejecting a row that is flagged already.)
RefusesDeleted_Checks(flag) == flag
RefusesDeleted(flag) == FALSE

\* Line 219: the clone is given what getConnectionConfig makes of the original.
\* (CloneConfig_Sealed: the blob handed on as it was read.)
CloneConfig_Sealed(blob) == blob
CloneConfig(blob) == Unseal(blob)

\* Lines 229-231: the clone's title.
CopyTitle(title) == title \o <<"_copy">>

\* Lines 54-64: updateIntegrationSourceConfig follows updateIntegration.
\* (AfterPersist_Notify: the handler without the propagation.)
AfterPersist_Notify == "notify"
AfterPersist == "list"

\* Lines 288-290: the propagation writes the entry with NocoCache.update.
\* (CacheWrite_Set: with NocoCache.set, which writes the entry whether it is
\* there or not.)
CacheWrite_Set(cch, s, cfg) ==
    [x \in DOMAIN cch \cup {s} |-> IF x = s THEN cfg ELSE cch[x]]
CacheWrite(cch, s, cfg) == CachePatch(cch, s, cfg)

\* Line 155: the cascade loop goes on to the next listed source, if any.
\* (NextCascade_SkipsLast: the loop stops one source early.)
NextCascade_SkipsLast(i, n) == IF i + 1 < n THEN "cascade" ELSE "idelete"
NextCascade(i, n) == IF i < n THEN "cascade" ELSE "idelete"

Running(c) == calls[c].pc \notin {"idle", "done"}
MayStart(c) ==
    /\ ~Running(c)
    /\ overlap => calls[c].pc = "idle"
    /\ overlap \/ c = "A"
    /\ overlap \/ \A d \in Calls : ~Running(d)

Set(c, rec) == calls' = [calls EXCEPT ![c] = rec]

\* An error leaves an async handler that has no try block around the step.
Raise(c, class, injected) ==
    Set(c, [calls[c] EXCEPT !.err = Error(class, {}), !.failedAt = calls[c].pc,
                            !.faulted = injected, !.pc = "done"])

\* An error inside integrationDelete's try block.
Throw(c, e, injected) ==
    Set(c, [calls[c] EXCEPT !.caught = e, !.failedAt = calls[c].pc,
                            !.faulted = injected, !.pc = AfterThrow])

----------------------------------------------------------------------------
(* integrationUpdate, lines 40-75, and updateIntegrationSourceConfig,       *)
(* lines 249-301.                                                          *)

StartUpdate(c) ==
    /\ MayStart(c)
    /\ \E id \in TargetIds, cfg \in Configs, valid \in BOOLEAN :
         Set(c, [IdleCall EXCEPT !.op = "update", !.pc = "validate", !.id = id,
                                !.cfg = cfg, !.valid = valid,
                                !.preI = integrations, !.preS = sources])
    /\ UNCHANGED <<integrations, sources, cache, available, overlap>>

\* Lines 48-51: validatePayload throws on a payload that does not fit the schema.
UpdateValidate(c) ==
    /\ calls[c].op = "update" /\ calls[c].pc = "validate"
    /\ IF PayloadRejected(calls[c].valid)
         THEN Raise(c, "Validation", FALSE)
         ELSE Set(c, [calls[c] EXCEPT !.pc = "persist"])
    /\ UNCHANGED <<integrations, sources, cache, available, overlap>>

\* Lines 54-61: Integration.updateIntegration persists the body under the id.
UpdatePersist(c) ==
    /\ calls[c].op = "update" /\ calls[c].pc = "persist"
    /\ \/ /\ calls[c].id \in DOMAIN integrations
          /\ integrations' = PersistIntegration(integrations, calls[c].id, calls[c].cfg)
          /\ Set(c, [calls[c] EXCEPT !.pc = AfterPersist,
                                     !.integration = calls[c].id,
                                     !.ws = integrations[calls[c].id].fk_workspace_id,
                                     !.config = calls[c].cfg,
                                     !.invoked = @ \cup {"updateIntegration"}])
       \/ /\ calls[c].id \notin DOMAIN integrations
          /\ Raise(c, "NotFound", FALSE)
          /\ UNCHANGED integrations
       \/ /\ Raise(c, "Internal", TRUE)
          /\ UNCHANGED integrations
    /\ UNCHANGED <<sources, cache, available, overlap>>

\* Lines 258-281: the active sources that use the integration.
UpdateListSources(c) ==
    /\ calls[c].op = "update" /\ calls[c].pc = "list"
    /\ \/ LET rows == Rows(UpdateList(sources, calls[c].ws, calls[c].integration))
          IN Set(c, [calls[c] EXCEPT !.srcs = rows, !.i = 1,
                                     !.pc = NextSource(0, Len(rows))])
       \/ Raise(c, "Internal", TRUE)
    /\ UNCHANGED <<integrations, sources, cache, available, overlap>>

\* Lines 288-290: NocoCache.update of the source's entry with the new config.
UpdateCachePatch(c) ==
    /\ calls[c].op = "update" /\ calls[c].pc = "patch"
    /\ LET s == calls[c].srcs[calls[c].i] IN
       \/ /\ cache' = CacheWrite(cache, s, calls[c].config)
          /\ Set(c, [calls[c] EXCEPT !.pc = "release", !.patched = @ \cup {s},
                         !.dropped = IF s \in DOMAIN cache THEN @ ELSE @ \cup {s}])
       \/ /\ Raise(c, "Internal", TRUE)
          /\ UNCHANGED cache
    /\ UNCHANGED <<integrations, sources, available, overlap>>

\* Line 293: NcConnectionMgrv2.deleteAwait(source).
UpdateRelease(c) ==
    /\ calls[c].op = "update" /\ calls[c].pc = "release"
    /\ LET s == calls[c].srcs[calls[c].i] IN
       \/ Set(c, [calls[c] EXCEPT !.pc = "worker", !.released = @ \cup {s}])
       \/ Raise(c, "Internal", TRUE)
    /\ UNCHANGED <<integrations, sources, cache, available, overlap>>

\* Lines 296-297: JobsRedis.available is read, then the worker command is sent.
UpdateWorker(c) ==
    /\ calls[c].op = "update" /\ calls[c].pc = "worker"
    /\ LET s == calls[c].srcs[calls[c].i] IN
       IF Broadcasts(available)
         THEN \/ Set(c, [calls[c] EXCEPT !.pc = "primary", !.worker = @ \cup {s},
                                         !.sawBus = @ \/ available])
              \/ Raise(c, "Internal", TRUE)
         ELSE Set(c, [calls[c] EXCEPT !.i = @ + 1,
                         !.pc = NextSource(calls[c].i, Len(calls[c].srcs))])
    /\ UNCHANGED <<integrations, sources, cache, available, overlap>>

\* Line 298: the primary command follows the worker command.
UpdatePrimary(c) ==
    /\ calls[c].op = "update" /\ calls[c].pc = "primary"
    /\ LET s == calls[c].srcs[calls[c].i] IN
       \/ Set(c, [calls[c] EXCEPT !.primary = @ \cup {s}, !.i = @ + 1,
                      !.pc = NextSource(calls[c].i, Len(calls[c].srcs))])
       \/ Raise(c, "Internal", TRUE)
    /\ UNCHANGED <<integrations, sources, cache, available, overlap>>

\* Lines 66-74: the config is cleared, the event emitted, the integration returned.
UpdateNotify(c) ==
    /\ calls[c].op = "update" /\ calls[c].pc = "notify"
    /\ \/ Set(c, [calls[c] EXCEPT !.config = 0, !.emitted = TRUE,
                                   !.ret = "integration", !.pc = "done"])
       \/ Raise(c, "Internal", TRUE)
    /\ UNCHANGED <<integrations, sources, cache, available, overlap>>

----------------------------------------------------------------------------
(* integrationDelete, lines 98-182.                                        *)

StartDelete(c) ==
    /\ MayStart(c)
    /\ \E id \in TargetIds, force \in BOOLEAN :
         Set(c, [IdleCall EXCEPT !.op = "delete", !.pc = "begin", !.id = id,
                                !.force = force,
                                !.preI = integrations, !.preS = sources])
    /\ UNCHANGED <<integrations, sources, cache, available, overlap>>

\* Line 102: the transaction is opened before the try block.
DeleteBegin(c) ==
    /\ calls[c].op = "delete" /\ calls[c].pc = "begin"
    /\ \/ Set(c, [calls[c] EXCEPT !.txn = "open", !.pc = "get"])
       \/ Raise(c, "Internal", TRUE)
    /\ UNCHANGED <<integrations, sources, cache, available, overlap>>

\* Lines 104-109: Integration.get through the transaction; a missing row fails
\* the call from inside the try block.
DeleteGet(c) ==
    /\ calls[c].op = "delete" /\ calls[c].pc = "get"
    /\ \/ /\ calls[c].id \in DOMAIN integrations
          /\ Set(c, [calls[c] EXCEPT !.integration = calls[c].id,
                                     !.ws = integrations[calls[c].id].fk_workspace_id,
                                     !.pc = "dlist"])
       \/ /\ calls[c].id \notin DOMAIN integrations
          /\ Throw(c, Error("NotFound", {}), FALSE)
       \/ Throw(c, Error("Internal", {}), TRUE)
    /\ UNCHANGED <<integrations, sources, cache, available, overlap>>

\* Lines 112-136: the linked sources, read through the transaction.
DeleteListSources(c) ==
    /\ calls[c].op = "delete" /\ calls[c].pc = "dlist"
    /\ \/ LET rows == Rows(DeleteList(sources, calls[c].ws, calls[c].integration))
          IN Set(c, [calls[c] EXCEPT !.srcs = rows, !.i = 1, !.pc = "check"])
       \/ Throw(c, Error("Internal", {}), TRUE)
    /\ UNCHANGED <<integrations, sources, cache, available, overlap>>

\* Lines 138-153: linked sources stop a delete that is not forced, with the error
\* NcError.integrationLinkedWithMultiple(bases, sources).
DeleteCheck(c) ==
    /\ calls[c].op = "delete" /\ calls[c].pc = "check"
    /\ IF Blocked(Len(calls[c].srcs), calls[c].force)
         THEN \/ Throw(c, IntegrationLinkedWithMultiple(
                            {<<calls[c].preS[s].base_id, s>> : s \in Range(calls[c].srcs)}),
                       FALSE)
              \/ Throw(c, Error("Internal", {}), TRUE)
         ELSE Set(c, [calls[c] EXCEPT !.pc = NextCascade(0, Len(calls[c].srcs))])
    /\ UNCHANGED <<integrations, sources, cache, available, overlap>>

\* Lines 155-167: sourcesService.baseDelete of the next linked source: its cache
\* entry goes at once, its row through the handle.
DeleteCascade(c) ==
    /\ calls[c].op = "delete" /\ calls[c].pc = "cascade"
    /\ LET s == calls[c].srcs[calls[c].i]
           h == CascadeHandle(c)
           next == [calls[c] EXCEPT !.i = @ + 1,
                       !.invoked = @ \cup {"baseDelete"},
                       !.pc = NextCascade(calls[c].i, Len(calls[c].srcs))]
       IN
       \/ /\ cache' = Without(cache, {s})
          /\ IF Durable(h)
               THEN /\ sources' = Without(sources, {s})
                    /\ Set(c, [next EXCEPT !.dirS = @ \cup {s}])
               ELSE /\ sources' = sources
                    /\ Set(c, [next EXCEPT !.delS = @ \cup {s}])
       \/ /\ Throw(c, Error("Internal", {}), TRUE)
          /\ UNCHANGED <<sources, cache>>
    /\ UNCHANGED <<integrations, available, overlap>>

\* Line 169: integration.delete(ncMeta).
DeleteRow(c) ==
    /\ calls[c].op = "delete" /\ calls[c].pc = "idelete"
    /\ LET h == RowDeleteHandle(c)
           next == [calls[c] EXCEPT !.invoked = @ \cup {"integration.delete"},
                                    !.pc = "emit"]
       IN
       \/ IF Durable(h)
            THEN /\ integrations' = Without(integrations, {calls[c].integration})
                 /\ Set(c, [next EXCEPT !.dirI = @ \cup {calls[c].integration}])
            ELSE /\ integrations' = integrations
                 /\ Set(c, [next EXCEPT !.delI = @ \cup {calls[c].integration}])
       \/ /\ Throw(c, Error("Internal", {}), TRUE)
          /\ UNCHANGED integrations
    /\ UNCHANGED <<sources, cache, available, overlap>>

\* Lines 170-174: the INTEGRATION_DELETE event.
DeleteEmit(c) ==
    /\ calls[c].op = "delete" /\ calls[c].pc = "emit"
    /\ \/ Set(c, [calls[c] EXCEPT !.emitted = TRUE, !.pc = "commit"])
       \/ Throw(c, Error("Internal", {}), TRUE)
    /\ UNCHANGED <<integrations, sources, cache, available, overlap>>

\* Line 176: ncMeta.commit().
DeleteCommit(c) ==
    /\ calls[c].op = "delete" /\ calls[c].pc = "commit"
    /\ \/ /\ integrations' = Without(integrations, calls[c].delI)
          /\ sources' = Without(sources, calls[c].delS)
          /\ Set(c, [calls[c] EXCEPT !.txn = "committed",
                                     !.txnLog = Append(@, "commit"),
                                     !.pc = AfterCommit])
       \/ /\ Set(c, [calls[c] EXCEPT !.caught = Error("Internal", {}),
                                     !.failedAt = "commit", !.faulted = TRUE,
                                     !.txnLog = Append(@, "commit failed"),
                                     !.pc = AfterThrow])
          /\ UNCHANGED <<integrations, sources>>
    /\ UNCHANGED <<cache, available, overlap>>

\* Lines 177-180: ncMeta.rollback(e), then NcError.badRequest(e) is what the
\* caller gets.
DeleteCatch(c) ==
    /\ calls[c].op = "delete" /\ calls[c].pc = "catch"
    /\ Set(c, [calls[c] EXCEPT !.txn = "rolledback", !.delS = {}, !.delI = {},
                               !.txnLog = Append(@, "rollback"),
                               !.err = BadRequest(calls[c].caught), !.pc = "done"])
    /\ UNCHANGED <<integrations, sources, cache, available, overlap>>

\* Line 181.
DeleteReturn(c) ==
    /\ calls[c].op = "delete" /\ calls[c].pc = "return"
    /\ Set(c, [calls[c] EXCEPT !.ret = "true", !.pc = "done"])
    /\ UNCHANGED <<integrations, sources, cache, available, overlap>>

----------------------------------------------------------------------------
(* integrationSoftDelete, lines 184-195.                                   *)

\* Lines 191-193: the catch block throws NcError.badRequest(e).
Wrap(c, e, injected) ==
    Set(c, [calls[c] EXCEPT !.caught = e, !.err = BadRequest(e),
                            !.failedAt = calls[c].pc, !.faulted = injected,
                            !.pc = "done"])

StartSoftDelete(c) ==
    /\ MayStart(c)
    /\ \E id \in TargetIds :
         Set(c, [IdleCall EXCEPT !.op = "softDelete", !.pc = "sget", !.id = id,
                                !.preI = integrations, !.preS = sources])
    /\ UNCHANGED <<integrations, sources, cache, available, overlap>>

\* Line 189: Integration.get(context, param.integrationId).
SoftDeleteGet(c) ==
    /\ calls[c].op = "softDelete" /\ calls[c].pc = "sget"
    /\ \/ /\ calls[c].id \in DOMAIN integrations
          /\ IF RefusesDeleted(integrations[calls[c].id].deleted)
               THEN Wrap(c, Error("NotFound", {}), FALSE)
               ELSE Set(c, [calls[c] EXCEPT !.integration = calls[c].id,
                                          !.pc = "sflag"])
       \/ /\ calls[c].id \notin DOMAIN integrations
          /\ Wrap(c, Error("NotFound", {}), FALSE)
       \/ Wrap(c, Error("Internal", {}), TRUE)
    /\ UNCHANGED <<integrations, sources, cache, available, overlap>>

\* Lines 190 and 194: integration.softDelete(), then true is returned.
SoftDeleteFlag(c) ==
    /\ calls[c].op = "softDelete" /\ calls[c].pc = "sflag"
    /\ \/ /\ integrations' = SoftDeleted(integrations, calls[c].integration)
          /\ Set(c, [calls[c] EXCEPT !.invoked = @ \cup {"softDelete"},
                                     !.ret = "true", !.pc = "done"])
       \/ /\ Wrap(c, Error("Internal", {}), TRUE)
          /\ UNCHANGED integrations
    /\ UNCHANGED <<sources, cache, available, overlap>>

----------------------------------------------------------------------------
(* integrationCreate, lines 197-245.                                       *)

\* The ids a request may name in copy_from_id: of rows that are there and of
\* rows that are not.
CopyIds == IntegrationIds \cup Range(FreshIds)

StartCreate(c) ==
    /\ MayStart(c)
    /\ Created(integrations) < MaxCreated
    /\ \E copy \in CopyIds \cup {"none"}, cfg \in Configs, valid \in BOOLEAN :
         Set(c, [IdleCall EXCEPT !.op = "create", !.pc = "cvalidate",
                                !.copy = copy, !.cfg = cfg, !.valid = valid,
                                !.preI = integrations, !.preS = sources])
    /\ UNCHANGED <<integrations, sources, cache, available, overlap>>

\* Lines 205-225: validatePayload; without copy_from_id the body is the request.
CreateValidate(c) ==
    /\ calls[c].op = "create" /\ calls[c].pc = "cvalidate"
    /\ IF PayloadRejected(calls[c].valid)
         THEN Raise(c, "Validation", FALSE)
         ELSE IF calls[c].copy # "none"
           THEN Set(c, [calls[c] EXCEPT !.pc = "cget"])
           ELSE Set(c, [calls[c] EXCEPT !.ws = "w1", !.title = <<"request">>,
                                        !.config = calls[c].cfg, !.pc = "cinsert"])
    /\ UNCHANGED <<integrations, sources, cache, available, overlap>>

\* Lines 210-217: Integration.get of copy_from_id; no row, integrationNotFound.
CreateGet(c) ==
    /\ calls[c].op = "create" /\ calls[c].pc = "cget"
    /\ \/ /\ calls[c].copy \in DOMAIN integrations
          /\ LET row == integrations[calls[c].copy] IN
             Set(c, [calls[c] EXCEPT !.integration = calls[c].copy,
                                     !.ws = row.fk_workspace_id,
                                     !.title = row.title,
                                     !.config = Seal(row.config),
                                     !.pc = "cconfig"])
       \/ /\ calls[c].copy \notin DOMAIN integrations
          /\ Raise(c, "NotFound", FALSE)
       \/ Raise(c, "Internal", TRUE)
    /\ UNCHANGED <<integrations, sources, cache, available, overlap>>

\* Line 219: integrationBody.config = await integrationBody.getConnectionConfig().
CreateConfig(c) ==
    /\ calls[c].op = "create" /\ calls[c].pc = "cconfig"
    /\ \/ Set(c, [calls[c] EXCEPT !.config = CloneConfig(calls[c].config),
                                   !.pc = "cinsert"])
       \/ Raise(c, "Internal", TRUE)
    /\ UNCHANGED <<integrations, sources, cache, available, overlap>>

\* Lines 227-234: Integration.createIntegration of the body, the title suffixed
\* for a clone.
CreateInsert(c) ==
    /\ calls[c].op = "create" /\ calls[c].pc = "cinsert"
    /\ \/ /\ Created(integrations) < Len(FreshIds)
          /\ LET title == IF calls[c].copy # "none"
                             THEN CopyTitle(calls[c].title) ELSE calls[c].title
             IN /\ integrations' = InsertIntegration(integrations, calls[c].ws,
                                                     title, calls[c].config)
                /\ Set(c, [calls[c] EXCEPT !.created = NewId(integrations),
                               !.title = title,
                               !.invoked = @ \cup {"createIntegration"},
                               !.pc = "cemit"])
       \/ /\ Raise(c, "Internal", TRUE)
          /\ UNCHANGED integrations
    /\ UNCHANGED <<sources, cache, available, overlap>>

\* Lines 236-244: the config is cleared, the event emitted, the integration
\* returned.
CreateEmit(c) ==
    /\ calls[c].op = "create" /\ calls[c].pc = "cemit"
    /\ \/ Set(c, [calls[c] EXCEPT !.config = 0, !.emitted = TRUE,
                                   !.ret = "integration", !.pc = "done"])
       \/ Raise(c, "Internal", TRUE)
    /\ UNCHANGED <<integrations, sources, cache, available, overlap>>

----------------------------------------------------------------------------
\* JobsRedis.available follows the bus's connection: it changes at run time.
BusChange ==
    /\ available' = ~available
    /\ UNCHANGED <<integrations, sources, cache, overlap, calls>>

UpdateStep(c) ==
    \/ StartUpdate(c)
    \/ UpdateValidate(c)
    \/ UpdatePersist(c)
    \/ UpdateListSources(c)
    \/ UpdateCachePatch(c)
    \/ UpdateRelease(c)
    \/ UpdateWorker(c)
    \/ UpdatePrimary(c)
    \/ UpdateNotify(c)

DeleteStep(c) ==
    \/ StartDelete(c)
    \/ DeleteBegin(c)
    \/ DeleteGet(c)
    \/ DeleteListSources(c)
    \/ DeleteCheck(c)
    \/ DeleteCascade(c)
    \/ DeleteRow(c)
    \/ DeleteEmit(c)
    \/ DeleteCommit(c)
    \/ DeleteCatch(c)
    \/ DeleteReturn(c)

SoftDeleteStep(c) ==
    \/ StartSoftDelete(c)
    \/ SoftDeleteGet(c)
    \/ SoftDeleteFlag(c)

CreateStep(c) ==
    \/ StartCreate(c)
    \/ CreateValidate(c)
    \/ CreateGet(c)
    \/ CreateConfig(c)
    \/ CreateInsert(c)
    \/ CreateEmit(c)

\* The handlers that work on an integration that is there; the runs of
\* integrationCreate are SpecCreate's.
Step(c) == UpdateStep(c) \/ DeleteStep(c) \/ SoftDeleteStep(c)

Next == BusChange \/ \E c \in Calls : Step(c)

Spec == Init /\ [][Next]_vars

\* The update handler alone, with the bus coming and going.  A call that has
\* started goes on: the event loop resumes every settled await.
\* Calls of integrationCreate, one after another.
NextCreate == \E c \in Calls : CreateStep(c)
SpecCreate == InitCreate /\ [][NextCreate]_vars

\* Two callers, one call each, their steps interleaved in any order: A makes a
\* call of integrationUpdate or of integrationDelete, B one of integrationUpdate.
NextOverlap == UpdateStep("A") \/ DeleteStep("A") \/ UpdateStep("B")
SpecOverlap == InitOverlap /\ [][NextOverlap]_vars

NextUpdate == BusChange \/ \E c \in Calls : UpdateStep(c)
Proceed(c) == Running(c) /\ UpdateStep(c)
SpecUpdateFair ==
    Init /\ [][NextUpdate]_vars /\ \A c \in Calls : WF_vars(Proceed(c))

----------------------------------------------------------------------------
(* The claims.                                                             *)

\* The active dependents of integration id among the rows srcs: the sources
\* that reference it and are not flagged deleted.
Dependents(srcs, id) ==
    {s \in DOMAIN srcs :
        srcs[s].fk_integration_id = id /\ srcs[s].deleted \in {"false", "null"}}

Ended(c, op) == calls[c].op = op /\ calls[c].pc = "done"
HadDependents(c) ==
    /\ calls[c].id \in DOMAIN calls[c].preI
    /\ Dependents(calls[c].preS, calls[c].id) # {}
StoreAsBefore(c) == integrations = calls[c].preI /\ sources = calls[c].preS

\* C1: a delete that is not forced, of an integration with at least one active
\* dependent source, leaves the integration row and every source row as they
\* were before the call, and calls neither sourcesService.baseDelete nor
\* integration.delete, at any point of the call and once it has ended.
C1_NonForcedDeleteChangesNothing ==
    \A c \in Calls :
        (calls[c].op = "delete" /\ ~calls[c].force /\ HadDependents(c)) =>
            /\ StoreAsBefore(c)
            /\ "baseDelete" \notin calls[c].invoked
            /\ "integration.delete" \notin calls[c].invoked
            /\ calls[c].delS = {} /\ calls[c].delI = {}

C1_Witness ==
    \E c \in Calls :
        /\ Ended(c, "delete") /\ ~calls[c].force /\ HadDependents(c)
        /\ calls[c].failedAt = "check" /\ calls[c].txn = "rolledback"
        /\ StoreAsBefore(c)

\* C2 (as claimed): when a delete that is not forced is stopped by active
\* dependent sources, the error the caller gets is the Conflict error with
\* every blocking base/source pair.
C2_CallerGetsConflict ==
    \A c \in Calls :
        (Ended(c, "delete") /\ ~calls[c].force /\ HadDependents(c)
            /\ ~calls[c].faulted) =>
            /\ calls[c].err.class = "Conflict"
            /\ calls[c].err.blockers =
                 {<<calls[c].preS[s].base_id, s>> :
                     s \in Dependents(calls[c].preS, calls[c].id)}

\* C3: once a step inside the delete's transaction has thrown, nothing of the
\* cascade is durable: the transaction ends rolled back, never committed, and
\* the integration row and all source rows are as before the call.
C3_ThrowRollsBackEverything ==
    \A c \in Calls :
        (calls[c].op = "delete" /\ calls[c].caught # NoError) =>
            /\ StoreAsBefore(c)
            /\ calls[c].txn # "committed"
            /\ calls[c].pc = "done" =>
                 /\ calls[c].txn = "rolledback"
                 /\ calls[c].delS = {} /\ calls[c].delI = {}
                 /\ calls[c].err.class = "BadRequest"

C3_Witness ==
    \E c \in Calls :
        /\ Ended(c, "delete") /\ calls[c].force /\ calls[c].faulted
        /\ calls[c].failedAt = "cascade" /\ calls[c].i = 2
        /\ Len(calls[c].srcs) >= 2
        /\ calls[c].txn = "rolledback"
        /\ StoreAsBefore(c)

\* C4: a delete, forced or not, of an existing integration with no active
\* dependent source, in which no collaborator call fails, returns true after
\* its transaction has committed, and the integration row is gone.
C4_DeleteWithoutDependentsSucceeds ==
    \A c \in Calls :
        (Ended(c, "delete") /\ ~calls[c].faulted
            /\ calls[c].id \in DOMAIN calls[c].preI
            /\ Dependents(calls[c].preS, calls[c].id) = {}) =>
            /\ calls[c].ret = "true"
            /\ calls[c].err = NoError
            /\ calls[c].txn = "committed"
            /\ calls[c].id \notin DOMAIN integrations

C4_Witness ==
    \E c \in Calls :
        /\ Ended(c, "delete") /\ ~calls[c].force /\ calls[c].ret = "true"
        /\ calls[c].id \in DOMAIN calls[c].preI
        /\ Dependents(calls[c].preS, calls[c].id) = {}
        /\ \E s \in DOMAIN calls[c].preS :
              /\ calls[c].preS[s].fk_integration_id = calls[c].id
              /\ calls[c].preS[s].deleted = "true"
        /\ calls[c].id \notin DOMAIN integrations

\* C5: a forced delete of an integration with active dependent sources writes
\* nothing durable before its commit and every delete goes through the
\* transaction it opened; once it has returned true the integration row and
\* the row of every source that was an active dependent are gone, and no
\* active source references the integration.
C5_ForcedDeleteCascadesInOneTransaction ==
    \A c \in Calls :
        (calls[c].op = "delete" /\ calls[c].force /\ HadDependents(c)) =>
            /\ calls[c].dirS = {} /\ calls[c].dirI = {}
            /\ calls[c].txn # "committed" => StoreAsBefore(c)
            /\ (calls[c].pc = "done" /\ calls[c].ret = "true") =>
                 /\ calls[c].txn = "committed"
                 /\ calls[c].delS = Dependents(calls[c].preS, calls[c].id)
                 /\ calls[c].delI = {calls[c].id}
                 /\ calls[c].id \notin DOMAIN integrations
                 /\ Dependents(calls[c].preS, calls[c].id) \cap DOMAIN sources = {}
                 /\ Dependents(sources, calls[c].id) = {}

C5_Witness ==
    \E c \in Calls :
        /\ Ended(c, "delete") /\ calls[c].force /\ calls[c].ret = "true"
        /\ Cardinality(Dependents(calls[c].preS, calls[c].id)) >= 2
        /\ \E s \in Dependents(calls[c].preS, calls[c].id) :
              calls[c].preS[s].deleted = "null"
        /\ calls[c].id \notin DOMAIN integrations
        /\ Dependents(calls[c].preS, calls[c].id) \cap DOMAIN sources = {}

\* The cached integration_config of every active dependent source of the
\* call's integration is the config the call persisted.
CachesFollow(c) ==
    \A s \in Dependents(sources, calls[c].id) \cap DOMAIN cache :
        cache[s] = calls[c].cfg

\* C6: an update that has persisted a config, and in which no collaborator
\* call fails, leads to a state where the call has ended and every cache entry
\* of an active dependent source holds that config, whether the bus is
\* available or not.
C6_UpdateReachesEveryCache ==
    \A c \in Calls :
        (calls[c].op = "update" /\ calls[c].pc = "list")
            ~> (Ended(c, "update") /\ (calls[c].faulted \/ CachesFollow(c)))

C6_Witness ==
    \E c \in Calls :
        /\ Ended(c, "update") /\ ~calls[c].faulted
        /\ calls[c].cfg # calls[c].preI[calls[c].id].config
        /\ Cardinality(Dependents(sources, calls[c].id) \cap DOMAIN cache) >= 2
        /\ CachesFollow(c)
        /\ ~available /\ ~calls[c].sawBus

\* C7 (as claimed): no delete whose transaction was rolled back has emitted the
\* INTEGRATION_DELETE event.
C7_NoEventWithoutCommit ==
    \A c \in Calls :
        (calls[c].op = "delete" /\ calls[c].txn = "rolledback") => ~calls[c].emitted

BestEffortSteps == {"patch", "release", "worker", "primary"}

\* C8 (as claimed): when the cache patch, the local release or a broadcast
\* fails for one source, every other listed source still gets its cache patch
\* and its local release.
C8_FailureDoesNotStopPropagation ==
    \A c \in Calls :
        (Ended(c, "update") /\ calls[c].failedAt \in BestEffortSteps) =>
            \A s \in Range(calls[c].srcs) \ {calls[c].srcs[calls[c].i]} :
                s \in calls[c].patched /\ s \in calls[c].released

\* C9 (as claimed): a failure of a best-effort step after the change was
\* persisted leaves the call returning the integration, with the
\* INTEGRATION_UPDATE event emitted.
C9_BestEffortFailureKeepsResult ==
    \A c \in Calls :
        (Ended(c, "update") /\ "updateIntegration" \in calls[c].invoked
            /\ calls[c].failedAt \in BestEffortSteps) =>
            /\ calls[c].ret = "integration"
            /\ calls[c].emitted

\* C10: an update that has persisted, during which the bus was unavailable at
\* every read of JobsRedis.available and no collaborator call fails, sends no
\* worker and no primary command, patches the cache entry and releases the
\* connection of every active dependent source, and returns the integration.
C10_BusDownIsNotAnError ==
    \A c \in Calls :
        (Ended(c, "update") /\ "updateIntegration" \in calls[c].invoked
            /\ ~calls[c].sawBus /\ ~calls[c].faulted) =>
            /\ calls[c].worker = {} /\ calls[c].primary = {}
            /\ calls[c].patched = Dependents(calls[c].preS, calls[c].id)
            /\ calls[c].released = Dependents(calls[c].preS, calls[c].id)
            /\ calls[c].ret = "integration" /\ calls[c].err = NoError
            /\ calls[c].emitted

C10_Witness ==
    \E c \in Calls :
        /\ Ended(c, "update") /\ ~calls[c].sawBus /\ ~calls[c].faulted
        /\ Cardinality(calls[c].patched) >= 2
        /\ calls[c].released = calls[c].patched
        /\ calls[c].worker = {} /\ calls[c].primary = {}
        /\ calls[c].ret = "integration"

----------------------------------------------------------------------------
\* C11: an integrationUpdate call whose payload is invalid fails with the
\* validation error before anything else happens: the integration record is not
\* written, no cache entry is patched, no connection released, no command
\* broadcast and no update event emitted.
C11_InvalidPayloadStopsFirst ==
    \A c \in Calls :
        (calls[c].op = "update" /\ ~calls[c].valid) =>
            /\ calls[c].pc \in {"validate", "done"}
            /\ StoreAsBefore(c)
            /\ calls[c].invoked = {} /\ calls[c].patched = {}
            /\ calls[c].released = {}
            /\ calls[c].worker = {} /\ calls[c].primary = {}
            /\ ~calls[c].emitted
            /\ calls[c].pc = "done" =>
                  calls[c].err = Error("Validation", {}) /\ calls[c].ret = "none"

C11_Witness ==
    \E c \in Calls :
        /\ Ended(c, "update") /\ ~calls[c].valid
        /\ calls[c].err.class = "Validation"
        /\ Dependents(sources, calls[c].id) # {}

EmitSteps == {"emit", "notify", "cemit"}

\* C13: a throw of appHooksService.emit does not change the outcome of the
\* operation: a hard delete whose other steps succeeded is committed and
\* returns true, an update or create that persisted returns its integration.
C13_EmitFailureKeepsOutcome ==
    \A c \in Calls :
        (calls[c].pc = "done" /\ calls[c].failedAt \in EmitSteps) =>
            /\ calls[c].err = NoError
            /\ calls[c].op = "delete" =>
                  calls[c].txn = "committed" /\ calls[c].ret = "true"
            /\ calls[c].op \in {"update", "create"} =>
                  calls[c].ret = "integration"

\* The sources a call has treated as dependents: listed, named as blockers,
\* cascaded or patched.
Treated(c) ==
    Range(calls[c].srcs) \cup {p[2] : p \in calls[c].caught.blockers}
        \cup calls[c].delS \cup calls[c].dirS \cup calls[c].patched

\* C14: the conflict check of the hard delete and the propagation of the update
\* select the same dependents of an integration: the sources whose
\* fk_integration_id is the integration and whose deleted is false or null.  A
\* source whose deleted is true is never a blocker, never cascaded and never
\* patched.
C14_SameDependents ==
    /\ \A id \in DOMAIN integrations :
          /\ DeleteList(sources, integrations[id].fk_workspace_id, id)
                = Dependents(sources, id)
          /\ UpdateList(sources, integrations[id].fk_workspace_id, id)
                = Dependents(sources, id)
    /\ \A c \in Calls :
          /\ (calls[c].op \in {"update", "delete"} /\ calls[c].i > 0) =>
                Range(calls[c].srcs) = Dependents(calls[c].preS, calls[c].id)
          /\ \A s \in Treated(c) : calls[c].preS[s].deleted # "true"

C14_Witness ==
    \E c \in Calls, s, t \in SourceIds :
        /\ Ended(c, "update") /\ calls[c].patched = {s}
        /\ calls[c].preS[s].deleted = "null"
        /\ calls[c].preS[t].fk_integration_id = calls[c].id
        /\ calls[c].preS[t].deleted = "true"

Cloned(c) ==
    /\ Ended(c, "create") /\ calls[c].copy # "none"
    /\ calls[c].ret = "integration"

\* C15: integrationCreate with copy_from_id adds one row under an id of its own,
\* the title the original's followed by "_copy", the config what the original's
\* config opened to when the call was made; the original and every other row
\* stay as they were, and the integration returned has its config cleared.
C15_CloneCopiesTitleAndConfig ==
    \A c \in Calls :
        Cloned(c) =>
            /\ calls[c].copy \in DOMAIN calls[c].preI
            /\ calls[c].created \notin DOMAIN calls[c].preI
            /\ DOMAIN integrations = DOMAIN calls[c].preI \cup {calls[c].created}
            /\ \A id \in DOMAIN calls[c].preI : integrations[id] = calls[c].preI[id]
            /\ integrations[calls[c].created].title
                  = calls[c].preI[calls[c].copy].title \o <<"_copy">>
            /\ integrations[calls[c].created].config
                  = calls[c].preI[calls[c].copy].config
            /\ calls[c].config = 0

C15_Witness ==
    \E c \in Calls :
        /\ Cloned(c)
        /\ calls[c].preI[calls[c].copy].config # calls[c].cfg
        /\ calls[c].preI[calls[c].copy].config = MaxConfigs

\* The calls of commit and rollback a delete has made that returned.
Finishes(c) ==
    {k \in 1..Len(calls[c].txnLog) : calls[c].txnLog[k] \in {"commit", "rollback"}}

\* C16: a transaction that integrationDelete has opened is finished, when the
\* call ends, by exactly one commit or rollback; no rollback follows a commit
\* that succeeded, and commit is not called once a step inside the transaction
\* has thrown.
C16_TransactionFinishedOnce ==
    \A c \in Calls :
        calls[c].op = "delete" =>
            /\ Cardinality(Finishes(c)) <= 1
            /\ (calls[c].pc = "done" /\ calls[c].txn # "none") =>
                  Cardinality(Finishes(c)) = 1
            /\ (Running(c) /\ calls[c].pc \notin {"begin", "return"}) =>
                  calls[c].txn = "open"
            /\ calls[c].txn = "committed" => calls[c].txnLog = <<"commit">>
            /\ calls[c].failedAt \notin {"none", "commit"} =>
                  Range(calls[c].txnLog) \subseteq {"rollback"}

C16_Witness ==
    \E c \in Calls :
        /\ Ended(c, "delete")
        /\ calls[c].txnLog = <<"commit failed", "rollback">>
        /\ calls[c].delS = {} /\ calls[c].invoked = {"baseDelete", "integration.delete"}

\* The listed sources whose baseDelete has completed in the call's transaction.
Cascaded(c) == calls[c].delS \cup calls[c].dirS
RowDeleteCalled(c) == "integration.delete" \in calls[c].invoked
CommitCalled(c) ==
    \E k \in 1..Len(calls[c].txnLog) :
        calls[c].txnLog[k] \in {"commit", "commit failed"}

\* C17: in a hard delete, integration.delete is called only once baseDelete has
\* completed for every listed active dependent source, and commit only once
\* integration.delete has completed; while the transaction holds the row's
\* delete, it holds the delete of every listed source too.
C17_CascadeThenRowThenCommit ==
    [][\A c \in Calls :
          calls[c].op = "delete" =>
            /\ (~RowDeleteCalled(c) /\ RowDeleteCalled(c)') =>
                  Range(calls[c].srcs) \subseteq Cascaded(c)
            /\ (~CommitCalled(c) /\ CommitCalled(c)') =>
                  RowDeleteCalled(c) /\ calls[c].delI \cup calls[c].dirI # {}
            /\ (calls[c].delI \cup calls[c].dirI # {})' =>
                  (Range(calls[c].srcs) \subseteq Cascaded(c))'
            /\ (calls[c].txn = "committed")' =>
                  (/\ calls[c].id \notin DOMAIN integrations
                   /\ Range(calls[c].srcs) \cap DOMAIN sources = {})'
     ]_vars

C17_Witness ==
    \E c \in Calls :
        /\ calls[c].op = "delete" /\ calls[c].txn = "committed"
        /\ Cardinality(Range(calls[c].srcs)) >= 2
        /\ Range(calls[c].srcs) = calls[c].delS
        /\ calls[c].delI = {calls[c].id}

Persisted(c) == "updateIntegration" \in calls[c].invoked

\* C18: the steps of integrationUpdate come in the order validate, persist,
\* propagate, notify: nothing is patched, released or broadcast before the record
\* is persisted, the update event is emitted only after the propagation has
\* gone through every active dependent source, and for each source the cache
\* patch comes before the local release, the release before the worker RELEASE,
\* the worker RELEASE before the primary RELEASE.
C18_UpdateStagesInOrder ==
    [][\A c \in Calls :
          calls[c].op = "update" =>
            /\ (~Persisted(c) /\ Persisted(c)') =>
                  /\ calls[c].valid /\ calls[c].pc = "persist"
                  /\ calls[c].patched \cup calls[c].released
                        \cup calls[c].worker \cup calls[c].primary = {}
            /\ (calls[c].patched \cup calls[c].released
                    \cup calls[c].worker \cup calls[c].primary # {})' => Persisted(c)
            /\ \A s \in SourceIds :
                  /\ (s \notin calls[c].released /\ s \in calls[c].released') =>
                        s \in calls[c].patched
                  /\ (s \notin calls[c].worker /\ s \in calls[c].worker') =>
                        s \in calls[c].released
                  /\ (s \notin calls[c].primary /\ s \in calls[c].primary') =>
                        s \in calls[c].worker
            /\ (~calls[c].emitted /\ calls[c].emitted') =>
                  /\ Persisted(c) /\ calls[c].pc = "notify"
                  /\ calls[c].patched = Dependents(calls[c].preS, calls[c].id)
                  /\ calls[c].released = calls[c].patched
                  /\ calls[c].primary = calls[c].worker
     ]_vars

C18_Witness ==
    \E c \in Calls :
        /\ Ended(c, "update") /\ calls[c].emitted
        /\ Cardinality(calls[c].primary) >= 2
        /\ calls[c].primary = calls[c].patched

\* An update call that went through: persisted, propagated, notified.
Updated(c) == Ended(c, "update") /\ calls[c].emitted

\* C19: once two overlapping integrationUpdate calls on one integration have
\* both finished, the cache entry of every active dependent source holds the
\* config of the durable record, that is of the update persisted last.
C19_CachesHoldLastPersisted ==
    \A c, d \in Calls :
        (c # d /\ Updated(c) /\ Updated(d) /\ calls[c].id = calls[d].id) =>
            \A s \in Dependents(sources, calls[c].id) \cap DOMAIN cache :
                cache[s] = integrations[calls[c].id].config

\* C20: with an integrationUpdate overlapping a forced integrationDelete of the
\* same integration, no source the delete has cascaded has a cache entry, so
\* none holds an integration_config, once the delete is committed and the
\* update has finished; a patch that comes after the entry was removed is
\* dropped and does not bring the entry back.
C20_NoCacheEntryAfterCascade ==
    \A c, d \in Calls :
        (calls[c].op = "delete" /\ calls[c].force /\ calls[d].op = "update") =>
            /\ \A s \in Cascaded(c) : s \notin DOMAIN cache
            /\ \A s \in calls[d].dropped : s \notin DOMAIN cache
            /\ (calls[c].txn = "committed" /\ calls[d].pc = "done") =>
                  \A s \in Range(calls[c].srcs) :
                      s \notin DOMAIN cache /\ s \notin DOMAIN sources

C20_Witness ==
    \E c, d \in Calls, s \in SourceIds :
        /\ calls[c].op = "delete" /\ calls[c].force /\ calls[c].txn = "committed"
        /\ Updated(d) /\ calls[d].cfg # 1
        /\ s \in calls[c].delS /\ s \in calls[d].dropped
        /\ calls[d].patched # calls[d].dropped

====
